---- MODULE Spec2Model ----
(***************************************************************************)
(* A model of src/generator.py: the interesting-case discovery loop        *)
(* (CaseGenerator.generate_interesting_case), the instrumentation loop     *)
(* (generate_file) and the parallel search orchestrator                    *)
(* (parallel_interesting_case, _wrapper_interesting, terminate_processes). *)
(*                                                                         *)
(* The specifications share the module's variables:                        *)
(*   SpecDisc  a worker's calls of generate_interesting_case               *)
(*   SpecGen   one call of generate_file                                   *)
(*   SpecPar   the consumer, the worker processes and the queue            *)
(*   SpecParFair  the same, with processes that keep running               *)
(*   SpecRun   one call of run_csmith or run_yarpgen                       *)
(*   SpecFile  parallel_interesting_case_file                              *)
(* Each leaves the variables of the others at their initial values.        *)
(***************************************************************************)
EXTENDS Integers, Sequences, FiniteSets, TLC

\* ------------------------------------------------------------------ bounds
\* Markers the instrumentation tool inserts into one candidate.
NumMarkers == 2
\* Attempts of the unbounded `while True` of generate_interesting_case.
MaxAttempts == 2

\* Largest value of exec_cfg.min_size and exec_cfg.max_size; candidates are up
\* to one longer.
MaxSize == 3

\* Largest `processes` argument of parallel_interesting_case.
MaxProcs == 3
\* Cases all workers together discover in one run.
MaxCases == 3

\* Cases one worker puts on the queue.
MaxCalls == 2

\* TimeoutExpired exceptions one call of generate_file may meet.
MaxTimeouts == 102

\* Paths one run of parallel_interesting_case_file yields.
MaxPaths == 3

\* f"case_{counter:08}-..."
CounterWidth == 8
\* f"...-{h:019}.tar"
HashWidth == 19

\* run_csmith: `if tries > 10`
CsmithRetries == 10
\* run_yarpgen: `if tries > 100`
YarpgenRetries == 100

Markers == 1 .. NumMarkers
Workers == 1 .. MaxProcs
Sizes == 0 .. MaxSize
Lengths == 0 .. MaxSize + 1

\* ------------------------------------------------------- scenario (inputs)
\* A CompilerSetting: the compiler and its optimisation level.
Setting(c, o) == [compiler |-> c, opt_level |-> o]

\* The scenarios a search is started with: target and attacker settings are
\* Python lists, kept in their order.
Scenarios ==
    { [target_settings   |-> <<Setting("A", "O2")>>,
       attacker_settings |-> <<Setting("B", "O2")>>],
      [target_settings   |-> <<Setting("A", "O1"), Setting("A", "O2")>>,
       attacker_settings |-> <<Setting("B", "O2")>>],
      [target_settings   |-> <<Setting("A", "O2")>>,
       attacker_settings |-> <<Setting("B", "O2"), Setting("C", "O2")>>],
      [target_settings   |-> <<Setting("A", "O2")>>,
       attacker_settings |-> <<Setting("B", "O1"), Setting("C", "O2")>>],
      [target_settings   |-> <<Setting("A", "O2"), Setting("D", "O2")>>,
       attacker_settings |-> <<Setting("B", "O2")>>] }

\* _get_runner_details: the flags each generator variant adds to the scenario.
AdditionalFlags(variant) ==
    IF variant = "csmith" THEN <<"-Icsmith_include">> ELSE <<>>

VARIABLES
    \* ---- generate_interesting_case
    generator,                 \* which CaseGenerator subclass: "csmith" | "yarpgen"
    scenario,                  \* the Scenario argument (its two setting lists)
    flags,                     \* flags appended to the scenario by add_flags
    dpc,                       \* position in generate_interesting_case
    try_counter,               \* self.try_counter
    candidate_code,            \* the candidate of the attempt (its identity)
    target_alive_marker_list,  \* list of <<setting, alive set>>
    tester_alive_marker_list,  \* list of <<setting, alive set>>
    todo,                      \* markers of target_alive_markers still to iterate
    marker,                    \* loop variable of `for marker in ...`
    good,                      \* list of attacker settings that eliminated marker
    bi,                        \* index of `for bad_setting, ... in target list`
    case,                      \* the tentative Case handed to the Checker
    result,                    \* the Case returned, or None
    submitted,                 \* history: <<marker, bad_setting, verdict>> of the
                               \* Checker calls of this attempt
    nAccepted,                 \* history: Checker calls of this call that said True
    emitted,                   \* history: the scenario flags of each case the
                               \* worker has put on the queue
    builder_raised,            \* history: the Builder raised CompileError in
                               \* this attempt
    \* ---- generate_file
    min_size,                  \* exec_cfg.min_size
    max_size,                  \* exec_cfg.max_size
    gpc,                       \* position in generate_file
    candidate,                 \* len(candidate) of the candidate in hand
    restart,                   \* why the loop last went back to its top
    timeouts,                  \* history: TimeoutExpired caught in this call
    \* ---- parallel_interesting_case, _wrapper_interesting, terminate_processes
    start_stop,                \* the start_stop argument
    processes,                 \* the processes argument
    procs,                     \* self.procs: the workers, in spawn order
    wstate,                    \* per worker: "none" | "running" | "stopped" | "dead"
    wterm,                     \* per worker: a SIGTERM is pending (sent while stopped)
    wpc,                       \* per worker: "discover" | "put"
    wfound,                    \* per worker: cases it has discovered
    queue,                     \* the multiprocessing.Queue: cases <<worker, k>>
    cpc,                       \* position of the consumer / the generator
    ci,                        \* index of the running `for p in self.procs`
    held,                      \* the case yielded to the consumer, <<>> when none
    lastsig,                   \* history, per worker: the last signal sent to it
    tsigs,                     \* history, per worker: signals terminate_processes sent
    wfailed,                   \* history, per worker: ended by an exception
    delivered,                 \* history: the cases queue.get returned, in order
    \* ---- run_csmith, run_yarpgen
    rvariant,                  \* which function runs: "csmith" | "yarpgen"
    rpc,                       \* position in it
    tries,                     \* its local `tries`
    invocations,               \* history: subprocess.run calls of this call
    last_exit,                 \* history: how the last invocation ended
    \* ---- parallel_interesting_case_file
    fpc,                       \* position in it
    counter,                   \* its local `counter`
    h,                         \* its local `h`
    path,                      \* its local `path` (a sequence of characters)
    written,                   \* the paths to_file has written
    yielded,                   \* history: the paths yielded, in order
    hashes                     \* history: hash(str(case)) of each yielded path

dvars == <<generator, scenario, flags, dpc, try_counter, candidate_code,
           target_alive_marker_list, tester_alive_marker_list, todo, marker,
           good, bi, case, result, submitted, nAccepted, emitted,
           builder_raised>>

gvars == <<min_size, max_size, gpc, candidate, restart, timeouts>>

pvars == <<start_stop, processes, procs, wstate, wterm, wpc, wfound, queue,
           cpc, ci, held, lastsig, tsigs, wfailed, delivered>>

rvars == <<rvariant, rpc, tries, invocations, last_exit>>

fvars == <<fpc, counter, h, path, written, yielded, hashes>>

vars == <<dvars, gvars, pvars, rvars, fvars>>

\* --------------------------------------------- generate_interesting_case
\* A Python list of pairs as the set of markers of all its second components.
UnionOfSets(list) == UNION { list[i][2] : i \in 1 .. Len(list) }

\* The first components (the settings) of a list of <<setting, alive set>> pairs.
SettingsOf(list) == [i \in 1 .. Len(list) |-> list[i][1]]

\* A mutation of GoodSettings: the membership test inverted.
GoodSettings_Inverted(m, tester_list) ==
    SettingsOf(SelectSeq(tester_list, LAMBDA e : m \in e[2]))

\* A mutation of GoodSettings: every attacker is taken, eliminated or not.
GoodSettings_Unfiltered(m, tester_list) ==
    SettingsOf(tester_list)

\* `good`: the attacker settings whose alive set does not hold the marker.
GoodSettings(m, tester_list) ==
    SettingsOf(SelectSeq(tester_list, LAMBDA e : m \notin e[2]))

\* A mutation of GoodOptLevels: only the first good setting's level is kept.
GoodOptLevels_First(g) == { g[i].opt_level : i \in 1 .. Len(g) } \cap { g[1].opt_level }

\* good_opt_levels
GoodOptLevels(g) == { g[i].opt_level : i \in 1 .. Len(g) }

\* A mutation of IsBad: inter-opt_level comparison enabled.
IsBad_AnyLevel(m, bad_setting, bad_alive_markers, good_opt_levels) ==
    m \in bad_alive_markers

\* The condition under which a target setting makes a tentative case.
IsBad(m, bad_setting, bad_alive_markers, good_opt_levels) ==
    /\ m \in bad_alive_markers
    /\ bad_setting.opt_level \in good_opt_levels

\* utils.Case(code=..., marker=..., bad_setting=..., good_settings=good, ...)
MakeCase(code, m, bad_setting, g) ==
    [code |-> code, marker |-> m, bad_setting |-> bad_setting,
     good_settings |-> g]

\* Python's None where a Case is expected (0 stands for None where a marker
\* or a candidate is expected).
NoCase == [code |-> 0, marker |-> 0, bad_setting |-> Setting("-", "-"),
           good_settings |-> <<>>]

\* What builder.find_alive_markers may answer: a set of markers, or it raises
\* CompileError.
BuilderAnswers ==
    [raised : {FALSE}, alive : SUBSET Markers]
        \cup {[raised |-> TRUE, alive |-> {}]}

\* What chkr.is_interesting may answer.
CheckerAnswers == {"True", "False", "CompileError"}

\* The state of generate_interesting_case before it is called.
DIdle ==
    /\ flags = <<>>
    /\ dpc = "idle"
    /\ try_counter = 0
    /\ candidate_code = 0
    /\ target_alive_marker_list = <<>>
    /\ tester_alive_marker_list = <<>>
    /\ todo = {}
    /\ marker = 0
    /\ good = <<>>
    /\ bi = 0
    /\ case = NoCase
    /\ result = NoCase
    /\ submitted = {}
    /\ nAccepted = 0
    /\ emitted = <<>>
    /\ builder_raised = FALSE

\* generate_interesting_case is never called: its state stays as constructed.
DQuiet ==
    /\ generator = "csmith"
    /\ scenario = [target_settings |-> <<>>, attacker_settings |-> <<>>]
    /\ DIdle

DInit ==
    /\ generator \in {"csmith", "yarpgen"}
    /\ scenario \in Scenarios
    /\ DIdle

\* scenario.add_flags(new_flags): the flags are appended to the scenario's.
AddFlags(old, new_flags) == old \o new_flags

\* Entry: _get_runner_details, scenario.add_flags, self.try_counter = 0.
DCall ==
    /\ dpc = "idle"
    /\ flags' = AddFlags(flags, AdditionalFlags(generator))
    /\ try_counter' = 0
    /\ dpc' = "loop"
    /\ UNCHANGED <<generator, scenario, candidate_code,
                   target_alive_marker_list, tester_alive_marker_list, todo,
                   marker, good, bi, case, result, submitted, nAccepted>>
    /\ UNCHANGED <<emitted, builder_raised>>
    /\ UNCHANGED <<gvars, pvars, rvars, fvars>>

\* Top of `while True`: count the attempt and generate a fresh candidate
\* (generate_file, whose own loop is the subject of SpecGen); the locals of
\* the previous attempt are dead from here on and are cleared. The call of
\* generate_file is outside every try block: when it raises (the generator has
\* used up its retries) the exception leaves generate_interesting_case.
DNewAttempt ==
    /\ dpc = "loop"
    /\ try_counter < MaxAttempts
    /\ try_counter' = try_counter + 1
    /\ target_alive_marker_list' = <<>>
    /\ tester_alive_marker_list' = <<>>
    /\ todo' = {}
    /\ marker' = 0
    /\ good' = <<>>
    /\ bi' = 0
    /\ case' = NoCase
    /\ submitted' = {}
    /\ \E generated \in BOOLEAN :
         IF generated
         THEN /\ candidate_code' = try_counter + 1
              /\ dpc' = "targets"
         ELSE /\ UNCHANGED candidate_code
              /\ dpc' = "raised"
    /\ UNCHANGED <<generator, scenario, flags, result, nAccepted>>
    /\ builder_raised' = FALSE
    /\ UNCHANGED emitted
    /\ UNCHANGED <<gvars, pvars, rvars, fvars>>

\* One builder.find_alive_markers call of the first list comprehension.
DFindTarget ==
    /\ dpc = "targets"
    /\ LET tt == scenario.target_settings[Len(target_alive_marker_list) + 1]
       IN  \E ans \in BuilderAnswers :
             /\ builder_raised' = ans.raised
             /\ IF ans.raised
                THEN /\ dpc' = "loop"
                     /\ UNCHANGED target_alive_marker_list
                ELSE /\ target_alive_marker_list' =
                           Append(target_alive_marker_list, <<tt, ans.alive>>)
                     /\ dpc' = IF Len(target_alive_marker_list) + 1
                                    = Len(scenario.target_settings)
                               THEN "attackers" ELSE "targets"
    /\ UNCHANGED <<generator, scenario, flags, try_counter, candidate_code,
                   tester_alive_marker_list, todo, marker, good, bi, case,
                   result, submitted, nAccepted>>
    /\ UNCHANGED emitted
    /\ UNCHANGED <<gvars, pvars, rvars, fvars>>

\* A mutation of DFindAttacker: a CompileError counts as an empty alive set.
DFindAttacker_Swallow ==
    /\ dpc = "attackers"
    /\ LET tt == scenario.attacker_settings[Len(tester_alive_marker_list) + 1]
           last == Len(tester_alive_marker_list) + 1
                       = Len(scenario.attacker_settings)
       IN  \E ans \in BuilderAnswers :
             /\ builder_raised' = ans.raised
             /\ IF ans.raised
                THEN /\ tester_alive_marker_list' =
                           Append(tester_alive_marker_list, <<tt, {}>>)
                     /\ dpc' = IF last THEN "marker" ELSE "attackers"
                     /\ todo' = IF last THEN UnionOfSets(target_alive_marker_list)
                                        ELSE todo
                ELSE /\ tester_alive_marker_list' =
                           Append(tester_alive_marker_list, <<tt, ans.alive>>)
                     /\ dpc' = IF last THEN "marker" ELSE "attackers"
                     /\ todo' = IF last THEN UnionOfSets(target_alive_marker_list)
                                        ELSE todo
    /\ UNCHANGED <<generator, scenario, flags, try_counter, candidate_code,
                   target_alive_marker_list, marker, good, bi, case, result,
                   submitted, nAccepted>>
    /\ UNCHANGED emitted
    /\ UNCHANGED <<gvars, pvars, rvars, fvars>>

\* One builder.find_alive_markers call of the second list comprehension; after
\* the last one target_alive_markers is the union of the targets' alive sets.
DFindAttacker ==
    /\ dpc = "attackers"
    /\ LET tt == scenario.attacker_settings[Len(tester_alive_marker_list) + 1]
           last == Len(tester_alive_marker_list) + 1
                       = Len(scenario.attacker_settings)
       IN  \E ans \in BuilderAnswers :
             /\ builder_raised' = ans.raised
             /\ IF ans.raised
                THEN /\ dpc' = "loop"
                     /\ UNCHANGED <<tester_alive_marker_list, todo>>
                ELSE /\ tester_alive_marker_list' =
                           Append(tester_alive_marker_list, <<tt, ans.alive>>)
                     /\ dpc' = IF last THEN "marker" ELSE "attackers"
                     /\ todo' = IF last THEN UnionOfSets(target_alive_marker_list)
                                        ELSE todo
    /\ UNCHANGED <<generator, scenario, flags, try_counter, candidate_code,
                   target_alive_marker_list, marker, good, bi, case, result,
                   submitted, nAccepted>>
    /\ UNCHANGED emitted
    /\ UNCHANGED <<gvars, pvars, rvars, fvars>>

\* `for marker in target_alive_markers` (a set: any order), with the loop that
\* builds `good`; the for's else clause ends the attempt.
DNextMarker ==
    /\ dpc = "marker"
    /\ IF todo = {}
       THEN /\ dpc' = "loop"
            /\ UNCHANGED <<todo, marker, good, bi>>
       ELSE \E m \in todo :
              /\ marker' = m
              /\ todo' = todo \ {m}
              /\ good' = GoodSettings(m, tester_alive_marker_list)
              /\ bi' = 1
              /\ dpc' = IF Len(good') > 0 THEN "bad" ELSE "marker"
    /\ UNCHANGED <<generator, scenario, flags, try_counter, candidate_code,
                   target_alive_marker_list, tester_alive_marker_list, case,
                   result, submitted, nAccepted>>
    /\ UNCHANGED <<emitted, builder_raised>>
    /\ UNCHANGED <<gvars, pvars, rvars, fvars>>

\* One iteration of `for bad_setting, bad_alive_markers in target list` up to
\* the construction of the tentative case.
DBadStep ==
    /\ dpc = "bad"
    /\ IF bi > Len(target_alive_marker_list)
       THEN /\ dpc' = "marker"
            /\ UNCHANGED <<bi, case>>
       ELSE LET bad_setting == target_alive_marker_list[bi][1]
                bad_alive_markers == target_alive_marker_list[bi][2]
            IN  IF IsBad(marker, bad_setting, bad_alive_markers,
                         GoodOptLevels(good))
                THEN /\ case' = MakeCase(candidate_code, marker, bad_setting,
                                         good)
                     /\ dpc' = "check"
                     /\ UNCHANGED bi
                ELSE /\ bi' = bi + 1
                     /\ UNCHANGED <<dpc, case>>
    /\ UNCHANGED <<generator, scenario, flags, try_counter, candidate_code,
                   target_alive_marker_list, tester_alive_marker_list, todo,
                   marker, good, result, submitted, nAccepted>>
    /\ UNCHANGED <<emitted, builder_raised>>
    /\ UNCHANGED <<gvars, pvars, rvars, fvars>>

\* A mutation of DCheck: an accepted case does not end the search.
DCheck_NoReturn ==
    /\ dpc = "check"
    /\ \E v \in CheckerAnswers :
         /\ submitted' = submitted \cup {<<case.marker, case.bad_setting, v>>}
         /\ nAccepted' = IF v = "True" THEN nAccepted + 1 ELSE nAccepted
         /\ result' = IF v = "True" THEN case ELSE result
         /\ bi' = bi + 1
         /\ dpc' = "bad"
    /\ UNCHANGED <<generator, scenario, flags, try_counter, candidate_code,
                   target_alive_marker_list, tester_alive_marker_list, todo,
                   marker, good, case>>
    /\ UNCHANGED <<emitted, builder_raised>>
    /\ UNCHANGED <<gvars, pvars, rvars, fvars>>

\* A mutation of DCheck: a CompileError of the Checker ends the attempt.
DCheck_AbortOnError ==
    /\ dpc = "check"
    /\ \E v \in CheckerAnswers :
         /\ submitted' = submitted \cup {<<case.marker, case.bad_setting, v>>}
         /\ IF v = "True"
            THEN /\ nAccepted' = nAccepted + 1
                 /\ result' = case
                 /\ dpc' = "returned"
                 /\ UNCHANGED bi
            ELSE /\ bi' = bi + 1
                 /\ dpc' = IF v = "CompileError" THEN "loop" ELSE "bad"
                 /\ UNCHANGED <<result, nAccepted>>
    /\ UNCHANGED <<generator, scenario, flags, try_counter, candidate_code,
                   target_alive_marker_list, tester_alive_marker_list, todo,
                   marker, good, case>>
    /\ UNCHANGED <<emitted, builder_raised>>
    /\ UNCHANGED <<gvars, pvars, rvars, fvars>>

\* self.chkr.is_interesting(case): True returns the case, False and
\* CompileError go on with the next target setting.
DCheck ==
    /\ dpc = "check"
    /\ \E v \in CheckerAnswers :
         /\ submitted' = submitted \cup {<<case.marker, case.bad_setting, v>>}
         /\ IF v = "True"
            THEN /\ nAccepted' = nAccepted + 1
                 /\ result' = case
                 /\ dpc' = "returned"
                 /\ UNCHANGED bi
            ELSE /\ bi' = bi + 1
                 /\ dpc' = "bad"
                 /\ UNCHANGED <<result, nAccepted>>
    /\ UNCHANGED <<generator, scenario, flags, try_counter, candidate_code,
                   target_alive_marker_list, tester_alive_marker_list, todo,
                   marker, good, case>>
    /\ UNCHANGED <<emitted, builder_raised>>
    /\ UNCHANGED <<gvars, pvars, rvars, fvars>>

\* _wrapper_interesting: the case generate_interesting_case returned is
\* serialised, with the scenario as it is now, and put on the queue; the
\* worker's `while True` then calls generate_interesting_case again on the same
\* scenario object. The frame of the finished call is gone.
DPut ==
    /\ dpc = "returned"
    /\ Len(emitted) < MaxCalls
    /\ emitted' = Append(emitted, flags)
    /\ dpc' = "idle"
    /\ candidate_code' = 0
    /\ target_alive_marker_list' = <<>>
    /\ tester_alive_marker_list' = <<>>
    /\ todo' = {}
    /\ marker' = 0
    /\ good' = <<>>
    /\ bi' = 0
    /\ case' = NoCase
    /\ result' = NoCase
    /\ submitted' = {}
    /\ nAccepted' = 0
    /\ builder_raised' = FALSE
    /\ UNCHANGED <<generator, scenario, flags, try_counter>>
    /\ UNCHANGED <<gvars, pvars, rvars, fvars>>

DNext ==
    \/ DCall
    \/ DPut
    \/ DNewAttempt
    \/ DFindTarget
    \/ DFindAttacker
    \/ DNextMarker
    \/ DBadStep
    \/ DCheck

\* ----------------------------------------------------------- generate_file
\* A mutation of TooBig: the bound itself is refused.
TooBig_OrEqual(len, max) == len >= max

\* `if len(candidate) > exec_cfg.max_size: continue`
TooBig(len, max) == len > max

\* `if len(candidate) < exec_cfg.min_size: continue`
TooSmall(len, min) == len < min

\* The state of generate_file before it is called.
GIdle ==
    /\ gpc = "idle"
    /\ candidate = 0
    /\ restart = "none"
    /\ timeouts = 0

\* generate_file is never called.
GQuiet ==
    /\ min_size = 0
    /\ max_size = 0
    /\ GIdle

GInit ==
    /\ min_size \in Sizes
    /\ max_size \in Sizes
    /\ GIdle

\* Entry: additional_flags += ..., then `while True`.
GCall ==
    /\ gpc = "idle"
    /\ gpc' = "gen"
    /\ UNCHANGED <<min_size, max_size, candidate, restart, timeouts>>
    /\ UNCHANGED <<dvars, pvars, rvars, fvars>>

\* candidate = gen_program(): a program of some length, or the generator's
\* exception once its retries are used up, which no handler here catches, or
\* a TimeoutExpired, which restarts the loop.
GGenerate ==
    /\ gpc = "gen"
    /\ \/ /\ \E len \in Lengths :
               /\ candidate' = len
               /\ gpc' = "size"
          /\ restart' = "none"
          /\ UNCHANGED timeouts
       \/ /\ gpc' = "raised"
          /\ restart' = "none"
          /\ UNCHANGED <<candidate, timeouts>>
       \/ /\ timeouts < MaxTimeouts
          /\ gpc' = "gen"
          /\ restart' = "timeout"
          /\ timeouts' = timeouts + 1
          /\ UNCHANGED candidate
    /\ UNCHANGED <<min_size, max_size>>
    /\ UNCHANGED <<dvars, pvars, rvars, fvars>>

\* The two size tests: `continue` when too big or too small.
GSizeCheck ==
    /\ gpc = "size"
    /\ IF TooBig(candidate, max_size) \/ TooSmall(candidate, min_size)
       THEN /\ gpc' = "gen"
            /\ restart' = "size"
       ELSE /\ gpc' = "include"
            /\ UNCHANGED restart
    /\ UNCHANGED <<min_size, max_size, candidate, timeouts>>
    /\ UNCHANGED <<dvars, pvars, rvars, fvars>>

\* The candidate is written to the temporary file and
\* utils.find_include_paths runs on it; its TimeoutExpired restarts the loop.
GFindIncludePaths ==
    /\ gpc = "include"
    /\ \/ /\ gpc' = "instrument"
          /\ UNCHANGED <<restart, timeouts>>
       \/ /\ timeouts < MaxTimeouts
          /\ gpc' = "gen"
          /\ restart' = "timeout"
          /\ timeouts' = timeouts + 1
    /\ UNCHANGED <<min_size, max_size, candidate>>
    /\ UNCHANGED <<dvars, pvars, rvars, fvars>>

\* A mutation of GInstrument: the TimeoutExpired is not caught.
GInstrument_Propagate ==
    /\ gpc = "instrument"
    /\ \/ /\ gpc' = "returned"
          /\ UNCHANGED <<restart, timeouts>>
       \/ /\ timeouts < MaxTimeouts
          /\ gpc' = "raised"
          /\ restart' = "timeout"
          /\ timeouts' = timeouts + 1
    /\ UNCHANGED <<min_size, max_size, candidate>>
    /\ UNCHANGED <<dvars, pvars, rvars, fvars>>

\* instrument_program, then the instrumented text is read back and returned;
\* its TimeoutExpired restarts the loop.
GInstrument ==
    /\ gpc = "instrument"
    /\ \/ /\ gpc' = "returned"
          /\ UNCHANGED <<restart, timeouts>>
       \/ /\ timeouts < MaxTimeouts
          /\ gpc' = "gen"
          /\ restart' = "timeout"
          /\ timeouts' = timeouts + 1
    /\ UNCHANGED <<min_size, max_size, candidate>>
    /\ UNCHANGED <<dvars, pvars, rvars, fvars>>

GNext ==
    \/ GCall
    \/ GGenerate
    \/ GSizeCheck
    \/ GFindIncludePaths
    \/ GInstrument

\* ------------------------------------------------ the parallel search
\* os.kill(pid, signal.SIGSTOP) on a worker in state st: a running process stops.
AfterSIGSTOP(st) == IF st = "running" THEN "stopped" ELSE st

\* os.kill(pid, signal.SIGCONT): a stopped process runs again, and a SIGTERM
\* that was waiting for it is then delivered and ends it.
AfterSIGCONT(st, pending) ==
    IF st = "stopped" THEN (IF pending THEN "dead" ELSE "running") ELSE st

\* p.terminate() (SIGTERM, default action): ends a running process; a stopped
\* process keeps it pending until it is continued.
AfterSIGTERM(st) == IF st = "running" THEN "dead" ELSE st

RECURSIVE SumTo(_, _)
\* f[1] + ... + f[n]
SumTo(f, n) == IF n = 0 THEN 0 ELSE f[n] + SumTo(f, n - 1)

\* The state before parallel_interesting_case is called.
PIdle ==
    /\ procs = <<>>
    /\ wstate = [w \in Workers |-> "none"]
    /\ wterm = [w \in Workers |-> FALSE]
    /\ wpc = [w \in Workers |-> "discover"]
    /\ wfound = [w \in Workers |-> 0]
    /\ queue = <<>>
    /\ cpc = "new"
    /\ ci = 0
    /\ held = <<>>
    /\ lastsig = [w \in Workers |-> "none"]
    /\ tsigs = [w \in Workers |-> <<>>]
    /\ wfailed = [w \in Workers |-> FALSE]
    /\ delivered = <<>>

\* parallel_interesting_case is never called.
PQuiet ==
    /\ start_stop = FALSE
    /\ processes = 0
    /\ PIdle

PInit ==
    /\ start_stop \in BOOLEAN
    /\ processes \in 1 .. MaxProcs
    /\ PIdle

\* _wrapper_interesting: generate_interesting_case returns the worker's next case.
WDiscover(w) ==
    /\ wstate[w] = "running"
    /\ wpc[w] = "discover"
    /\ SumTo(wfound, MaxProcs) < MaxCases
    /\ wfound' = [wfound EXCEPT ![w] = @ + 1]
    /\ wpc' = [wpc EXCEPT ![w] = "put"]
    /\ UNCHANGED <<start_stop, processes, procs, wstate, wterm, queue, cpc, ci,
                   held, lastsig, tsigs>>
    /\ UNCHANGED <<wfailed, delivered>>
    /\ UNCHANGED <<dvars, gvars, rvars, fvars>>

\* _wrapper_interesting: generate_interesting_case raises (the generator has
\* used up its retries, DNewAttempt), nothing in the worker catches it and the
\* process ends. The parent is not told: `# TODO: handle process failure`.
WFail(w) ==
    /\ wstate[w] = "running"
    /\ wpc[w] = "discover"
    /\ wstate' = [wstate EXCEPT ![w] = "dead"]
    /\ wfailed' = [wfailed EXCEPT ![w] = TRUE]
    /\ UNCHANGED <<start_stop, processes, procs, wterm, wpc, wfound, queue, cpc,
                   ci, held, lastsig, tsigs, delivered>>
    /\ UNCHANGED <<dvars, gvars, rvars, fvars>>

\* A mutation of WPut: the case goes to the front of the queue.
WPut_Front(w) ==
    /\ wstate[w] = "running"
    /\ wpc[w] = "put"
    /\ queue' = <<<<w, wfound[w]>>>> \o queue
    /\ wpc' = [wpc EXCEPT ![w] = "discover"]
    /\ UNCHANGED <<start_stop, processes, procs, wstate, wterm, wfound, cpc, ci,
                   held, lastsig, tsigs>>
    /\ UNCHANGED <<wfailed, delivered>>
    /\ UNCHANGED <<dvars, gvars, rvars, fvars>>

\* _wrapper_interesting: queue.put of the serialised case completes, and the
\* worker goes round its `while True`.
WPut(w) ==
    /\ wstate[w] = "running"
    /\ wpc[w] = "put"
    /\ queue' = Append(queue, <<w, wfound[w]>>)
    /\ wpc' = [wpc EXCEPT ![w] = "discover"]
    /\ UNCHANGED <<start_stop, processes, procs, wstate, wterm, wfound, cpc, ci,
                   held, lastsig, tsigs>>
    /\ UNCHANGED <<wfailed, delivered>>
    /\ UNCHANGED <<dvars, gvars, rvars, fvars>>

\* parallel_interesting_case up to its first queue.get (the body runs at the
\* consumer's first next()): the queue is created and `processes` workers are
\* created and started; no signal is sent and nothing is read before all run.
CStart ==
    /\ cpc = "new"
    /\ procs' = [i \in 1 .. processes |-> i]
    /\ wstate' = [w \in Workers |-> IF w <= processes THEN "running" ELSE "none"]
    /\ cpc' = "get"
    /\ UNCHANGED <<start_stop, processes, wterm, wpc, wfound, queue, ci, held,
                   lastsig, tsigs>>
    /\ UNCHANGED <<wfailed, delivered>>
    /\ UNCHANGED <<dvars, gvars, rvars, fvars>>

\* A mutation of CGet: start_stop is not honoured.
CGet_NoStop ==
    /\ cpc = "get"
    /\ queue # <<>>
    /\ held' = Head(queue)
    /\ queue' = Tail(queue)
    /\ delivered' = Append(delivered, Head(queue))
    /\ cpc' = "yielded"
    /\ UNCHANGED <<start_stop, processes, procs, wstate, wterm, wpc, wfound, ci,
                   lastsig, tsigs>>
    /\ UNCHANGED wfailed
    /\ UNCHANGED <<dvars, gvars, rvars, fvars>>

\* queue.get returns a case and it is deserialised; without start_stop it is
\* yielded at once, with start_stop the SIGSTOP loop begins.
CGet ==
    /\ cpc = "get"
    /\ queue # <<>>
    /\ held' = Head(queue)
    /\ queue' = Tail(queue)
    /\ delivered' = Append(delivered, Head(queue))
    /\ IF start_stop
       THEN /\ cpc' = "stop"
            /\ ci' = 1
       ELSE /\ cpc' = "yielded"
            /\ UNCHANGED ci
    /\ UNCHANGED <<start_stop, processes, procs, wstate, wterm, wpc, wfound,
                   lastsig, tsigs>>
    /\ UNCHANGED wfailed
    /\ UNCHANGED <<dvars, gvars, rvars, fvars>>

\* A mutation of CStop: the loop passes over the worker without a signal.
CStop_Skip ==
    /\ cpc = "stop"
    /\ ci' = ci + 1
    /\ cpc' = IF ci = Len(procs) THEN "yielded" ELSE "stop"
    /\ UNCHANGED <<start_stop, processes, procs, wstate, wterm, wpc, wfound,
                   queue, held, lastsig, tsigs>>
    /\ UNCHANGED <<wfailed, delivered>>
    /\ UNCHANGED <<dvars, gvars, rvars, fvars>>

\* One iteration of the SIGSTOP loop (every started worker has a pid); after
\* the last one the case is yielded.
CStop ==
    /\ cpc = "stop"
    /\ LET w == procs[ci]
       IN  /\ wstate' = [wstate EXCEPT ![w] = AfterSIGSTOP(@)]
           /\ lastsig' = [lastsig EXCEPT ![w] = "SIGSTOP"]
    /\ ci' = ci + 1
    /\ cpc' = IF ci = Len(procs) THEN "yielded" ELSE "stop"
    /\ UNCHANGED <<start_stop, processes, procs, wterm, wpc, wfound, queue, held,
                   tsigs>>
    /\ UNCHANGED <<wfailed, delivered>>
    /\ UNCHANGED <<dvars, gvars, rvars, fvars>>

\* The consumer is done with the case and calls next(): the generator goes on
\* after its yield, to the SIGCONT loop with start_stop, else to queue.get.
CResume ==
    /\ cpc = "yielded"
    /\ held' = <<>>
    /\ IF start_stop
       THEN /\ cpc' = "cont"
            /\ ci' = 1
       ELSE /\ cpc' = "get"
            /\ UNCHANGED ci
    /\ UNCHANGED <<start_stop, processes, procs, wstate, wterm, wpc, wfound,
                   queue, lastsig, tsigs>>
    /\ UNCHANGED <<wfailed, delivered>>
    /\ UNCHANGED <<dvars, gvars, rvars, fvars>>

\* One iteration of the SIGCONT loop; after the last one, back to queue.get.
CCont ==
    /\ cpc = "cont"
    /\ LET w == procs[ci]
       IN  /\ wstate' = [wstate EXCEPT ![w] = AfterSIGCONT(@, wterm[w])]
           /\ lastsig' = [lastsig EXCEPT ![w] = "SIGCONT"]
    /\ ci' = ci + 1
    /\ cpc' = IF ci = Len(procs) THEN "get" ELSE "cont"
    /\ UNCHANGED <<start_stop, processes, procs, wterm, wpc, wfound, queue, held,
                   tsigs>>
    /\ UNCHANGED <<wfailed, delivered>>
    /\ UNCHANGED <<dvars, gvars, rvars, fvars>>

\* The consumer calls terminate_processes: before the search was started
\* (self.procs is empty) or while it holds a yielded case.
TBegin ==
    /\ cpc \in {"new", "yielded"}
    /\ ci' = 1
    /\ cpc' = IF Len(procs) = 0 THEN "terminated" ELSE "term_cont"
    /\ UNCHANGED <<start_stop, processes, procs, wstate, wterm, wpc, wfound,
                   queue, held, lastsig, tsigs>>
    /\ UNCHANGED <<wfailed, delivered>>
    /\ UNCHANGED <<dvars, gvars, rvars, fvars>>

\* A mutation of TCont: the worker is not continued before it is terminated.
TCont_Skip ==
    /\ cpc = "term_cont"
    /\ cpc' = "term_kill"
    /\ UNCHANGED <<start_stop, processes, procs, wstate, wterm, wpc, wfound,
                   queue, ci, held, lastsig, tsigs>>
    /\ UNCHANGED <<wfailed, delivered>>
    /\ UNCHANGED <<dvars, gvars, rvars, fvars>>

\* terminate_processes: os.kill(p.pid, signal.SIGCONT)
TCont ==
    /\ cpc = "term_cont"
    /\ LET w == procs[ci]
       IN  /\ wstate' = [wstate EXCEPT ![w] = AfterSIGCONT(@, wterm[w])]
           /\ lastsig' = [lastsig EXCEPT ![w] = "SIGCONT"]
           /\ tsigs' = [tsigs EXCEPT ![w] = Append(@, "SIGCONT")]
    /\ cpc' = "term_kill"
    /\ UNCHANGED <<start_stop, processes, procs, wterm, wpc, wfound, queue, ci,
                   held>>
    /\ UNCHANGED <<wfailed, delivered>>
    /\ UNCHANGED <<dvars, gvars, rvars, fvars>>

\* terminate_processes: p.terminate(), then the next worker or the return.
TKill ==
    /\ cpc = "term_kill"
    /\ LET w == procs[ci]
       IN  /\ wstate' = [wstate EXCEPT ![w] = AfterSIGTERM(@)]
           /\ wterm' = [wterm EXCEPT ![w] = (wstate[w] = "stopped")]
           /\ lastsig' = [lastsig EXCEPT ![w] = "SIGTERM"]
           /\ tsigs' = [tsigs EXCEPT ![w] = Append(@, "SIGTERM")]
    /\ ci' = ci + 1
    /\ cpc' = IF ci = Len(procs) THEN "terminated" ELSE "term_cont"
    /\ UNCHANGED <<start_stop, processes, procs, wpc, wfound, queue, held>>
    /\ UNCHANGED <<wfailed, delivered>>
    /\ UNCHANGED <<dvars, gvars, rvars, fvars>>

PNext ==
    \/ \E w \in Workers : WDiscover(w)
    \/ \E w \in Workers : WPut(w)
    \/ \E w \in Workers : WFail(w)
    \/ CStart
    \/ CGet
    \/ CStop
    \/ CResume
    \/ CCont
    \/ TBegin
    \/ TCont
    \/ TKill

\* ------------------------------------------------ run_csmith, run_yarpgen
\* A mutation of Exhausted: the budget itself is already too much.
Exhausted_AtBudget(t, budget) == t >= budget

\* `if tries > 10` / `if tries > 100`: the test that raises.
Exhausted(t, budget) == t > budget

\* How one invocation of the external generator may end: exit code 0 with
\* output of the expected shape, exit code 0 with a func.c whose sixth line is
\* not `#include "init.h"`, or a non-zero exit code.
Exits == {"zero", "zero_malformed", "nonzero"}

\* The state before run_csmith / run_yarpgen is called.
RIdle ==
    /\ rpc = "idle"
    /\ tries = 0
    /\ invocations = 0
    /\ last_exit = "none"

\* Neither is called.
RQuiet ==
    /\ rvariant = "csmith"
    /\ RIdle

RInit ==
    /\ rvariant \in {"csmith", "yarpgen"}
    /\ RIdle

\* Entry of either function: tries = 0, then `while True`.
RCall ==
    /\ rpc = "idle"
    /\ tries' = 0
    /\ rpc' = "loop"
    /\ UNCHANGED <<rvariant, invocations, last_exit>>
    /\ UNCHANGED <<dvars, gvars, pvars, fvars>>

\* A mutation of RunCsmith: a non-zero exit raises at once.
RunCsmith_NoRetry ==
    /\ rpc = "loop"
    /\ rvariant = "csmith"
    /\ invocations' = invocations + 1
    /\ \E exit \in {"zero", "nonzero"} :
         /\ last_exit' = exit
         /\ IF exit = "zero"
            THEN /\ rpc' = "returned"
                 /\ UNCHANGED tries
            ELSE /\ tries' = tries + 1
                 /\ rpc' = "raised"
    /\ UNCHANGED rvariant
    /\ UNCHANGED <<dvars, gvars, pvars, fvars>>

\* One iteration of run_csmith's loop: the command line is built (its random
\* options do not bear on the control flow), csmith runs, and its output is
\* returned on exit code 0; otherwise tries is counted and tested.
RunCsmith ==
    /\ rpc = "loop"
    /\ rvariant = "csmith"
    /\ invocations' = invocations + 1
    /\ \E exit \in {"zero", "nonzero"} :
         /\ last_exit' = exit
         /\ IF exit = "zero"
            THEN /\ rpc' = "returned"
                 /\ UNCHANGED tries
            ELSE /\ tries' = tries + 1
                 /\ rpc' = IF Exhausted(tries + 1, CsmithRetries)
                           THEN "raised" ELSE "loop"
    /\ UNCHANGED rvariant
    /\ UNCHANGED <<dvars, gvars, pvars, fvars>>

\* One iteration of run_yarpgen's loop: on exit code 0 driver.c and func.c are
\* read, func.c's sixth line is asserted to be the init.h include and removed,
\* and the concatenation is returned; otherwise tries is counted and tested.
RunYarpgen ==
    /\ rpc = "loop"
    /\ rvariant = "yarpgen"
    /\ invocations' = invocations + 1
    /\ \E exit \in Exits :
         /\ last_exit' = exit
         /\ IF exit = "zero"
            THEN /\ rpc' = "returned"
                 /\ UNCHANGED tries
            ELSE IF exit = "zero_malformed"
            THEN /\ rpc' = "assert_failed"
                 /\ UNCHANGED tries
            ELSE /\ tries' = tries + 1
                 /\ rpc' = IF Exhausted(tries + 1, YarpgenRetries)
                           THEN "raised" ELSE "loop"
    /\ UNCHANGED rvariant
    /\ UNCHANGED <<dvars, gvars, pvars, fvars>>

RNext ==
    \/ RCall
    \/ RunCsmith
    \/ RunYarpgen

\* ------------------------------------------ parallel_interesting_case_file
\* A Python int too wide for the checker's integers: a sign and the decimal
\* digits of the magnitude, most significant first, without leading zeros.
PyInt(neg, mag) == [neg |-> neg, mag |-> mag]

\* 2^63 = 9223372036854775808
Pow63 == <<9, 2, 2, 3, 3, 7, 2, 0, 3, 6, 8, 5, 4, 7, 7, 5, 8, 0, 8>>

\* 2^63 - 1
Pow63Less1 == <<9, 2, 2, 3, 3, 7, 2, 0, 3, 6, 8, 5, 4, 7, 7, 5, 8, 0, 7>>

\* Values hash(str(case)) may take (a Py_hash_t, 64 bits signed): both ends of
\* the range, zero, and small and large values of either sign.
HashValues ==
    { PyInt(TRUE, Pow63), PyInt(FALSE, Pow63Less1), PyInt(FALSE, <<0>>),
      PyInt(TRUE, <<2>>), PyInt(FALSE, <<4, 2>>),
      PyInt(TRUE, <<1, 0, 0, 0, 0, 0, 0, 0, 0, 0, 0, 0, 0, 0, 0, 0, 0, 0>>) }

\* -x
PyNeg(x) == IF x.mag = <<0>> THEN x ELSE PyInt(~x.neg, x.mag)

RECURSIVE DigitsLess(_, _)
\* a < b for two digit sequences of the same length
DigitsLess(a, b) ==
    IF a = <<>> THEN FALSE
    ELSE IF Head(a) # Head(b) THEN Head(a) < Head(b)
    ELSE DigitsLess(Tail(a), Tail(b))

\* a < b for two magnitudes
MagLess(a, b) ==
    IF Len(a) # Len(b) THEN Len(a) < Len(b) ELSE DigitsLess(a, b)

\* x < y
PyLess(x, y) ==
    IF x.neg # y.neg THEN x.neg
    ELSE IF x.neg THEN MagLess(y.mag, x.mag)
    ELSE MagLess(x.mag, y.mag)

\* max(x, y): the first of the largest, as Python's max
PyMax(x, y) == IF PyLess(x, y) THEN y ELSE x

\* The character of a decimal digit.
DigitChar(d) == <<"0", "1", "2", "3", "4", "5", "6", "7", "8", "9">>[d + 1]

RECURSIVE NatDigits(_)
\* The decimal digits of a natural number.
NatDigits(n) ==
    IF n < 10 THEN <<n>> ELSE Append(NatDigits(n \div 10), n % 10)

\* format(x, "0<width>"): sign-aware zero padding to a minimal width; the
\* minus sign counts in the width and precedes the zeros.
FormatZeroPadded(x, width) ==
    LET sign   == IF x.neg THEN <<"-">> ELSE <<>>
        digits == [i \in 1 .. Len(x.mag) |-> DigitChar(x.mag[i])]
        fill   == width - Len(sign) - Len(digits)
        zeros  == [i \in 1 .. (IF fill > 0 THEN fill ELSE 0) |-> "0"]
    IN  sign \o zeros \o digits

\* f"case_{counter:08}-{h:019}.tar" (below output_dir)
CasePath(c, hash) ==
    <<"c", "a", "s", "e", "_">>
      \o FormatZeroPadded(PyInt(FALSE, NatDigits(c)), CounterWidth)
      \o <<"-">>
      \o FormatZeroPadded(hash, HashWidth)
      \o <<".", "t", "a", "r">>

\* The state before parallel_interesting_case_file is called.
FIdle ==
    /\ fpc = "idle"
    /\ counter = 0
    /\ h = PyInt(FALSE, <<0>>)
    /\ path = <<>>
    /\ written = {}
    /\ yielded = <<>>
    /\ hashes = <<>>

\* It is never called.
FQuiet == FIdle

FInit == FIdle

\* The consumer's first next(): gen is created, counter = 0, `while True`.
FCall ==
    /\ fpc = "idle"
    /\ counter' = 0
    /\ fpc' = "next"
    /\ UNCHANGED <<h, path, written, yielded, hashes>>
    /\ UNCHANGED <<dvars, gvars, pvars, rvars>>

\* case = next(gen); h = hash(str(case))
FHash ==
    /\ fpc = "next"
    /\ Len(yielded) < MaxPaths
    /\ \E v \in HashValues :
         /\ h' = v
         /\ hashes' = Append(hashes, v)
    /\ fpc' = "fold"
    /\ UNCHANGED <<counter, path, written, yielded>>
    /\ UNCHANGED <<dvars, gvars, pvars, rvars>>

\* A mutation of FFold: the hash keeps its sign.
FFold_Skip ==
    /\ fpc = "fold"
    /\ fpc' = "path"
    /\ UNCHANGED <<h, counter, path, written, yielded, hashes>>
    /\ UNCHANGED <<dvars, gvars, pvars, rvars>>

\* h = max(h, -h)
FFold ==
    /\ fpc = "fold"
    /\ h' = PyMax(h, PyNeg(h))
    /\ fpc' = "path"
    /\ UNCHANGED <<counter, path, written, yielded, hashes>>
    /\ UNCHANGED <<dvars, gvars, pvars, rvars>>

\* path = Path(...); case.to_file(path)
FWrite ==
    /\ fpc = "path"
    /\ path' = CasePath(counter, h)
    /\ written' = written \cup {path'}
    /\ fpc' = "yield"
    /\ UNCHANGED <<counter, h, yielded, hashes>>
    /\ UNCHANGED <<dvars, gvars, pvars, rvars>>

\* yield path
FYield ==
    /\ fpc = "yield"
    /\ yielded' = Append(yielded, path)
    /\ fpc' = "held"
    /\ UNCHANGED <<counter, h, path, written, hashes>>
    /\ UNCHANGED <<dvars, gvars, pvars, rvars>>

\* The consumer's next next(): counter += 1 and round the loop.
FResume ==
    /\ fpc = "held"
    /\ counter' = counter + 1
    /\ fpc' = "next"
    /\ UNCHANGED <<h, path, written, yielded, hashes>>
    /\ UNCHANGED <<dvars, gvars, pvars, rvars>>

FNext ==
    \/ FCall
    \/ FHash
    \/ FFold
    \/ FWrite
    \/ FYield
    \/ FResume

\* ------------------------------------------------------- specifications
InitDisc == DInit /\ GQuiet /\ PQuiet /\ RQuiet /\ FQuiet

InitGen == GInit /\ DQuiet /\ PQuiet /\ RQuiet /\ FQuiet

InitPar == PInit /\ DQuiet /\ GQuiet /\ RQuiet /\ FQuiet

InitRun == RInit /\ DQuiet /\ GQuiet /\ PQuiet /\ FQuiet

InitFile == FInit /\ DQuiet /\ GQuiet /\ PQuiet /\ RQuiet

SpecDisc == InitDisc /\ [][DNext]_vars

SpecGen == InitGen /\ [][GNext]_vars

SpecPar == InitPar /\ [][PNext]_vars

\* The operating system keeps scheduling a worker that is not suspended (its
\* discovery comes to an end when it can, its put completes), and the
\* generator body runs on, once next() was called, up to its next yield.
\* Calling next() or terminate_processes is the consumer's choice, and a
\* worker's failure is never due.
PFairness ==
    /\ \A w \in Workers : WF_vars(WDiscover(w)) /\ WF_vars(WPut(w))
    /\ WF_vars(CGet)
    /\ WF_vars(CStop)
    /\ WF_vars(CCont)

SpecParFair == InitPar /\ [][PNext]_vars /\ PFairness

SpecRun == InitRun /\ [][RNext]_vars

SpecFile == InitFile /\ [][FNext]_vars

\* ------------------------------------------------- claims on SpecDisc
\* The indices of a list of <<setting, alive set>> pairs that record setting s.
Recorded(list, s) == { i \in 1 .. Len(list) : list[i][1] = s }

\* Both list comprehensions of the attempt ran to their end: every setting compiled.
ListsComplete ==
    /\ Len(target_alive_marker_list) = Len(scenario.target_settings)
    /\ Len(tester_alive_marker_list) = Len(scenario.attacker_settings)

\* Marker m is alive under the i-th target and dead under an attacker of the
\* same opt_level, by the alive sets of the attempt.
Qualifies(m, i) ==
    /\ m \in target_alive_marker_list[i][2]
    /\ \E j \in 1 .. Len(tester_alive_marker_list) :
         /\ tester_alive_marker_list[j][1].opt_level
                = target_alive_marker_list[i][1].opt_level
         /\ m \notin tester_alive_marker_list[j][2]

\* C1: a returned Case has a non-empty good_settings, its marker is in the alive
\* set its attempt computed for bad_setting and in the alive set of none of its
\* good_settings, and its code is the candidate of that attempt.
C1_CoreInvariant ==
    dpc = "returned" =>
        /\ result.code = candidate_code
        /\ Len(result.good_settings) > 0
        /\ Recorded(target_alive_marker_list, result.bad_setting) # {}
        /\ \A i \in Recorded(target_alive_marker_list, result.bad_setting) :
             result.marker \in target_alive_marker_list[i][2]
        /\ \A k \in 1 .. Len(result.good_settings) :
             /\ Recorded(tester_alive_marker_list, result.good_settings[k]) # {}
             /\ \A j \in Recorded(tester_alive_marker_list,
                                  result.good_settings[k]) :
                  result.marker \notin tester_alive_marker_list[j][2]

\* A case is returned with two good settings.
C1_Witness ==
    /\ dpc = "returned"
    /\ Len(result.good_settings) = 2

\* C2: the opt_level of a returned Case's bad_setting is the opt_level of one of
\* its good_settings.
C2_TierMatching ==
    dpc = "returned" =>
        \E k \in 1 .. Len(result.good_settings) :
            result.good_settings[k].opt_level = result.bad_setting.opt_level

\* A case is returned although its marker is also alive under a target whose
\* opt_level no good setting has: that target was passed over.
C2_Witness ==
    /\ dpc = "returned"
    /\ \E i \in 1 .. Len(target_alive_marker_list) :
         /\ result.marker \in target_alive_marker_list[i][2]
         /\ \A k \in 1 .. Len(result.good_settings) :
              result.good_settings[k].opt_level
                  # target_alive_marker_list[i][1].opt_level

\* C3 as stated: every attacker setting with the opt_level of a returned
\* Case's bad_setting has eliminated the marker.
C3_EveryComparableAttacker ==
    dpc = "returned" =>
        \A j \in 1 .. Len(tester_alive_marker_list) :
            tester_alive_marker_list[j][1].opt_level
                    = result.bad_setting.opt_level
                => result.marker \notin tester_alive_marker_list[j][2]

\* C3 amended: at least one attacker setting with the opt_level of a returned
\* Case's bad_setting has eliminated the marker.
C3_SomeComparableAttacker ==
    dpc = "returned" =>
        \E j \in 1 .. Len(tester_alive_marker_list) :
            /\ tester_alive_marker_list[j][1].opt_level
                   = result.bad_setting.opt_level
            /\ result.marker \notin tester_alive_marker_list[j][2]

\* A case is returned while an attacker of bad_setting's opt_level keeps the
\* marker alive.
C3_Witness ==
    /\ dpc = "returned"
    /\ \E j \in 1 .. Len(tester_alive_marker_list) :
         /\ tester_alive_marker_list[j][1].opt_level
                = result.bad_setting.opt_level
         /\ result.marker \in tester_alive_marker_list[j][2]

\* C7: the Checker says True at most once in a call, the call has returned
\* exactly when it has, what is returned is the tentative case it said True
\* to, and every other case submitted in the attempt was not accepted.
C7_FirstAccepted ==
    /\ nAccepted <= 1
    /\ (nAccepted = 1) <=> (dpc = "returned")
    /\ dpc # "returned" => result = NoCase
    /\ dpc = "returned" =>
         /\ result = case
         /\ <<result.marker, result.bad_setting, "True">> \in submitted
         /\ \A s \in submitted :
              s[3] = "True" => s = <<result.marker, result.bad_setting, "True">>

\* A case is returned after the Checker turned another one down in the same
\* attempt, and with markers of the attempt left unsearched.
C7_Witness ==
    /\ dpc = "returned"
    /\ \E s \in submitted : s[3] # "True"
    /\ todo # {}

\* Every target and every attacker setting of the attempt reports the same
\* alive set.
NoDivergence ==
    /\ ListsComplete
    /\ \A i \in 1 .. Len(target_alive_marker_list) :
         \A j \in 1 .. Len(tester_alive_marker_list) :
            target_alive_marker_list[i][2] = tester_alive_marker_list[j][2]
    /\ \A i, k \in 1 .. Len(target_alive_marker_list) :
         target_alive_marker_list[i][2] = target_alive_marker_list[k][2]

\* C8: from an attempt whose settings all report the same alive set, every step
\* constructs no tentative case, calls the Checker not at all and does not
\* return: it stays in the marker loop, ends the attempt, or starts the next
\* attempt with a new candidate (or, the generator failing, with its error).
C8_NoDivergenceNoCase ==
    [][ NoDivergence =>
          /\ case' = NoCase
          /\ submitted' = {}
          /\ result' = NoCase
          /\ \/ dpc' \in {"marker", "loop"}
             \/ /\ dpc = "loop"
                /\ dpc' = "targets"
                /\ candidate_code' # candidate_code
             \/ /\ dpc = "loop"
                /\ dpc' = "raised" ]_vars

\* An attempt whose settings all report the same non-empty alive set has ended
\* without a case.
C8_Witness ==
    /\ NoDivergence
    /\ target_alive_marker_list[1][2] # {}
    /\ dpc = "loop"

\* C9: a returned Case's good_settings are exactly the attackers under which
\* its marker is dead (in the scenario's order) and its (marker, bad_setting)
\* passes the structural filter; a case the Checker accepted is the one
\* returned; and an attempt in which all settings compiled ends without a
\* return only after every (marker, target) that passes the filter was
\* submitted to the Checker and not accepted.
C9_FilterComplete ==
    /\ dpc = "returned" =>
         /\ result.good_settings =
               SettingsOf(SelectSeq(tester_alive_marker_list,
                                    LAMBDA e : result.marker \notin e[2]))
         /\ \E i \in 1 .. Len(target_alive_marker_list) :
              /\ target_alive_marker_list[i][1] = result.bad_setting
              /\ Qualifies(result.marker, i)
    /\ \A s \in submitted :
         s[3] = "True" =>
            /\ dpc = "returned"
            /\ result.marker = s[1]
            /\ result.bad_setting = s[2]
    /\ (dpc = "loop" /\ ListsComplete) =>
         \A m \in Markers : \A i \in 1 .. Len(target_alive_marker_list) :
            Qualifies(m, i) =>
               \E v \in {"False", "CompileError"} :
                  <<m, target_alive_marker_list[i][1], v>> \in submitted

\* Targets [A@O2], attackers [B@O2], marker 2 alive under A and dead under B:
\* the Case returned is marker 2, bad A@O2, good [B@O2].
C9_Witness ==
    /\ dpc = "returned"
    /\ scenario.target_settings = <<Setting("A", "O2")>>
    /\ scenario.attacker_settings = <<Setting("B", "O2")>>
    /\ result.marker = 2
    /\ result.bad_setting = Setting("A", "O2")
    /\ result.good_settings = <<Setting("B", "O2")>>

\* ------------------------------------------------- claims on SpecPar
\* The workers that were spawned.
Spawned == { procs[i] : i \in 1 .. Len(procs) }

\* C4 as stated: in start/stop mode the channel holds no case between the
\* delivery of a case and the resume signals.
C4_ChannelEmptyWhileHeld ==
    (start_stop /\ cpc = "yielded") => queue = <<>>

\* C4 amended: in start/stop mode no case is put on the channel between the
\* delivery of a case and the next resume signal (of the SIGCONT loop or of
\* terminate_processes): the channel's content does not change, whatever was
\* put on it before the workers were suspended.
C4_NoPutWhileHeld ==
    [][ (start_stop /\ cpc = "yielded") => queue' = queue ]_vars

\* In start/stop mode a case is held by the consumer while another waits on
\* the channel and a third is in a suspended worker's put.
C4_Witness ==
    /\ start_stop
    /\ cpc = "yielded"
    /\ Len(queue) >= 1
    /\ \E w \in Spawned : wpc[w] = "put"

\* C5 as stated: in start/stop mode every worker has been sent SIGSTOP and is
\* suspended when the case is handed over, and a suspended worker runs again
\* only in the SIGCONT loop that follows the consumer's next().
C5_ResumedOnlyByNext ==
    [][ /\ (start_stop /\ cpc' = "yielded") =>
              \A w \in Spawned' :
                 lastsig'[w] = "SIGSTOP" /\ wstate'[w] = "stopped"
        /\ \A w \in Workers :
              (wstate[w] = "stopped" /\ wstate'[w] # "stopped") => cpc = "cont"
      ]_vars

\* C5 amended: the same for every worker that has not ended by itself on a
\* generator failure, but a suspended worker runs again only in the SIGCONT
\* loop that follows the consumer's next() or by the SIGCONT of
\* terminate_processes.
C5_ResumedByNextOrTerminate ==
    [][ /\ (start_stop /\ cpc' = "yielded") =>
              \A w \in Spawned' :
                 /\ lastsig'[w] = "SIGSTOP"
                 /\ wstate'[w] = "stopped" \/ wfailed'[w]
        /\ \A w \in Workers :
              (wstate[w] = "stopped" /\ wstate'[w] # "stopped") =>
                  cpc \in {"cont", "term_cont"}
      ]_vars

\* In start/stop mode the consumer holds a case while three workers are
\* suspended, one of them in its put.
C5_Witness ==
    /\ start_stop
    /\ cpc = "yielded"
    /\ Len(procs) = 3
    /\ \A w \in Spawned : wstate[w] = "stopped"
    /\ \E w \in Spawned : wpc[w] = "put"

\* C6: when terminate_processes has returned every spawned worker is dead
\* (none running, none suspended), and each was sent SIGCONT and then SIGTERM.
C6_TeardownComplete ==
    cpc = "terminated" =>
        \A w \in Spawned :
            /\ wstate[w] = "dead"
            /\ tsigs[w] = <<"SIGCONT", "SIGTERM">>

\* terminate_processes has returned after it was called with the workers
\* suspended by start/stop, one of them in its put.
C6_Witness ==
    /\ cpc = "terminated"
    /\ start_stop
    /\ Len(procs) >= 2
    /\ \E w \in Spawned : wpc[w] = "put"
    /\ \E w \in Spawned : wpc[w] = "discover"

\* ------------------------------------------------- claims on SpecGen
\* C10: a candidate that generate_file writes out, instruments or returns has
\* min_size <= length <= max_size, and a candidate the size tests sent back
\* for regeneration has a length outside that range (so lengths min_size and
\* max_size themselves pass).
C10_SizeBound ==
    /\ gpc \in {"include", "instrument", "returned"} =>
          (min_size <= candidate /\ candidate <= max_size)
    /\ (gpc = "gen" /\ restart = "size") =>
          (candidate < min_size \/ candidate > max_size)

\* A candidate of length exactly max_size, above min_size, is returned.
C10_Witness ==
    /\ gpc = "returned"
    /\ candidate = max_size
    /\ min_size < max_size

\* C19: a step of generate_file that meets a TimeoutExpired goes back to the
\* generation of a candidate, however many were met before (more than either
\* generator's retry budget allows failures); the call ends with an exception
\* only from the generation step, by the generator's own error.
C19_TimeoutRestartsUnbounded ==
    [][ /\ timeouts' # timeouts =>
             /\ timeouts' = timeouts + 1
             /\ gpc \in {"gen", "include", "instrument"}
             /\ gpc' = "gen"
             /\ restart' = "timeout"
        /\ (gpc' = "raised" /\ gpc # "raised") =>
             /\ gpc = "gen"
             /\ timeouts' = timeouts
      ]_vars

\* The loop has restarted on a timeout more often than the larger retry budget
\* allows failures, the last time after a candidate had passed the size tests.
C19_Witness ==
    /\ timeouts > YarpgenRetries + 1
    /\ gpc = "gen"
    /\ restart = "timeout"
    /\ ~TooBig(candidate, max_size)
    /\ ~TooSmall(candidate, min_size)
    /\ candidate > 0

\* ------------------------------------------------- claims on SpecRun
\* The retry budget of the running function.
Budget == IF rvariant = "csmith" THEN CsmithRetries ELSE YarpgenRetries

\* C11: run_csmith invokes the generator at most 10 times in one call, and
\* raises when the 10th consecutive invocation has failed.
C11_TenthFailureFatal ==
    rvariant = "csmith" =>
        /\ invocations <= CsmithRetries
        /\ (tries = CsmithRetries => rpc = "raised")

C20_PerWorkerOrderNoDuplicates ==
    LET stream == delivered \o queue
    IN  /\ \A i, j \in 1 .. Len(stream) :
              (i < j /\ stream[i][1] = stream[j][1]) => stream[i][2] < stream[j][2]
        /\ \A w \in Workers :
              LET mine == SelectSeq(stream, LAMBDA e : e[1] = w)
              IN  /\ \A k \in 1 .. Len(mine) : mine[k][2] = k
                  /\ Len(mine) = wfound[w] - (IF wpc[w] = "put" THEN 1 ELSE 0)

\* In start/stop mode the consumer has been handed two cases of one worker
\* with a case of another worker between them.
C20_Witness ==
    /\ start_stop
    /\ Len(delivered) = 3
    /\ delivered[1][1] = delivered[3][1]
    /\ delivered[1][1] # delivered[2][1]

\* The consumer is inside a next() call of a search that still has cases to
\* deliver (the workers' discoveries are bounded by MaxCases).
InNextWithCasesLeft ==
    /\ cpc \in {"cont", "get"}
    /\ Len(delivered) < MaxCases

\* In start/stop mode no worker is suspended while the consumer waits in
\* queue.get(): the SIGCONT loop has gone over every worker.
NoneSuspendedInGet ==
    (start_stop /\ cpc = "get") => \A w \in Spawned : wstate[w] # "stopped"

C21_ReturnsUnlessWorkersFailed ==
    /\ []NoneSuspendedInGet
    /\ (start_stop /\ InNextWithCasesLeft) ~>
          (cpc = "yielded" \/ \A w \in Spawned : wfailed[w])

\* ------------------------------------------------- claims on generator failure
\* C14: the consumer is never left blocked in queue.get() on an empty channel
\* when every worker has ended on a generator failure: the run ends with that
\* failure instead.
C14_FailureEndsParallelRun ==
    (cpc = "get" /\ queue = <<>>) => \E w \in Spawned : ~wfailed[w]

\* C17: a step in which the Builder raises CompileError adds no alive set, and
\* leaves the attempt at the top of the loop with its lists incomplete, no
\* tentative case, no Checker call and nothing returned; the step after it
\* starts the next attempt, with a new candidate unless generation fails.
C17_BuilderErrorAbortsAttempt ==
    [][ /\ builder_raised' =>
             /\ dpc' = "loop"
             /\ ~ListsComplete'
             /\ target_alive_marker_list' = target_alive_marker_list
             /\ tester_alive_marker_list' = tester_alive_marker_list
             /\ submitted' = {}
             /\ case' = NoCase
             /\ result' = NoCase
             /\ nAccepted' = 0
        /\ builder_raised =>
             /\ ~builder_raised'
             /\ try_counter' = try_counter + 1
             /\ \/ dpc' = "targets" /\ candidate_code' # candidate_code
                \/ dpc' = "raised"
      ]_vars

\* The Builder raised for the second attacker setting, after every target and
\* the first attacker had compiled.
C17_Witness ==
    /\ builder_raised
    /\ dpc = "loop"
    /\ Len(target_alive_marker_list) = Len(scenario.target_settings)
    /\ Len(tester_alive_marker_list) = 1
    /\ Len(scenario.attacker_settings) = 2

\* C18: a Checker call that raises CompileError only moves on to the next
\* target setting of the same marker: the attempt, its candidate, its alive
\* sets and the markers still to search stay, nothing is returned; an attempt
\* with such a call that ends without a return has submitted every (marker,
\* target) that passes the filter; and an exception leaves the call only from
\* the top of the loop (the generator's), never from a Builder or Checker call.
C18_CheckerErrorDropsOneCase ==
    [][ /\ (\E s \in submitted' \ submitted : s[3] = "CompileError") =>
             /\ dpc' = "bad"
             /\ bi' = bi + 1
             /\ marker' = marker
             /\ todo' = todo
             /\ good' = good
             /\ candidate_code' = candidate_code
             /\ try_counter' = try_counter
             /\ target_alive_marker_list' = target_alive_marker_list
             /\ tester_alive_marker_list' = tester_alive_marker_list
             /\ result' = NoCase
        /\ ((\E s \in submitted' : s[3] = "CompileError") /\ dpc' = "loop") =>
             \A m \in Markers : \A i \in 1 .. Len(target_alive_marker_list') :
                Qualifies(m, i)' =>
                   \E v \in {"False", "CompileError"} :
                      <<m, target_alive_marker_list'[i][1], v>> \in submitted'
        /\ (dpc' = "raised" /\ dpc # "raised") =>
             /\ dpc = "loop"
             /\ submitted' = {}
      ]_vars

\* A case is returned in an attempt in which the Checker raised CompileError
\* for an earlier tentative case.
C18_Witness ==
    /\ dpc = "returned"
    /\ \E s \in submitted : s[3] = "CompileError"

\* C15: every case a worker emits carries the same scenario flags as the first
\* one it emitted.
C15_FlagsFixedAfterFirstAttempt ==
    \A i \in 1 .. Len(emitted) : emitted[i] = emitted[1]

\* ------------------------------------------------- claims on SpecFile
\* The characters "0" .. "9".
DigitChars == {DigitChar(d) : d \in 0 .. 9}

RECURSIVE CharsValue(_)
\* The number a sequence of digit characters writes.
CharsValue(cs) ==
    IF cs = <<>> THEN 0
    ELSE 10 * CharsValue(SubSeq(cs, 1, Len(cs) - 1))
           + (CHOOSE d \in 0 .. 9 : DigitChar(d) = cs[Len(cs)])

RECURSIVE StripZeros(_)
\* A sequence of digit characters without its leading zeros (one digit stays).
StripZeros(cs) ==
    IF Len(cs) > 1 /\ Head(cs) = "0" THEN StripZeros(Tail(cs)) ELSE cs

\* C16: the k-th path yielded (k = 0, 1, ...) is case_<8 digits writing k>-<19
\* digits writing the magnitude of the case's hash>.tar, the case has been
\* written at that path, and no two yielded paths are equal.
C16_PathsSequentialAndDistinct ==
    /\ \A k \in 1 .. Len(yielded) :
         LET p       == yielded[k]
             cfield  == SubSeq(p, 6, 5 + CounterWidth)
             hfield  == SubSeq(p, 7 + CounterWidth, 6 + CounterWidth + HashWidth)
         IN  /\ Len(p) = 10 + CounterWidth + HashWidth
             /\ SubSeq(p, 1, 5) = <<"c", "a", "s", "e", "_">>
             /\ \A i \in 1 .. CounterWidth : cfield[i] \in DigitChars
             /\ CharsValue(cfield) = k - 1
             /\ p[6 + CounterWidth] = "-"
             /\ \A i \in 1 .. HashWidth : hfield[i] \in DigitChars
             /\ StripZeros(hfield)
                  = [i \in 1 .. Len(hashes[k].mag) |-> DigitChar(hashes[k].mag[i])]
             /\ SubSeq(p, Len(p) - 3, Len(p)) = <<".", "t", "a", "r">>
             /\ p \in written
    /\ \A j, k \in 1 .. Len(yielded) : j # k => yielded[j] # yielded[k]

\* Three paths have been yielded, one of them for the hash -2^63 and two for
\* the same hash.
C16_Witness ==
    /\ Len(yielded) = 3
    /\ \E k \in 1 .. 3 : hashes[k] = PyInt(TRUE, Pow63)
    /\ \E j, k \in 1 .. 3 : j # k /\ hashes[j] = hashes[k]

====
